---- MODULE Spec2Model ----
(***************************************************************************)
(* Model of json-to-csv-nft.py: the conversion of NFT metadata JSON        *)
(* documents (a folder of files, or one aggregated metadata.json) into     *)
(* per-item CSV files and one aggregated CSV.                              *)
(*                                                                         *)
(* Python values are tagged records [k |-> kind, v |-> payload]; a Python  *)
(* str is a sequence of one-character strings, so that startswith,         *)
(* replace, strip, int() and the digit regex are computed on characters.   *)
(* A Python dict is a function from key names to values; a dict whose      *)
(* insertion order matters (the trait map) is a sequence of <<key, value>> *)
(* pairs with unique keys.                                                 *)
(***************************************************************************)
EXTENDS Integers, Sequences, FiniteSets, TLC

VARIABLES
    cfg,              \* the parsed command line (args)
    input,            \* what the filesystem supplies: the folder's files or metadata.json
    pc,               \* position of the run in main(), or of a helper call
    idx,              \* index of the loop the run is in
    items_list,       \* the normalized items, in ingestion order
    all_traits_order, \* trait columns, first-seen order
    base_cols,        \* selected base columns
    header,           \* the batch-wide header
    per_files,        \* the per-item CSV files under ./csv, by stem
    agg_file,         \* the aggregated CSV file, NoFile while not created
    agg_items,        \* the item sequence the aggregated CSV is written from
    out,              \* the messages printed, in order
    args,             \* arguments of a helper call checked on its own
    result            \* its result

vars == <<cfg, input, pc, idx, items_list, all_traits_order, base_cols, header,
          per_files, agg_file, agg_items, out, args, result>>

mainVars == <<cfg, input, items_list, all_traits_order, base_cols, header,
              per_files, agg_file, agg_items, out>>

(* ------------------------------------------------------------------ *)
(* Python values                                                        *)
(* ------------------------------------------------------------------ *)
NoneV == [k |-> "none", v |-> 0]
IntV(n) == [k |-> "int", v |-> n]
StrV(s) == [k |-> "str", v |-> s]
\* the JSON number 1.5: a value whose str() is no integer literal
FloatV == [k |-> "float", v |-> 0]
ListV(s) == [k |-> "list", v |-> s]
DictV(d) == [k |-> "dict", v |-> d]

EmptyStr == StrV(<< >>)

\* bool(x): the truth value the `or` chains and `if t:` tests read
Truthy(x) ==
    CASE x.k = "none" -> FALSE
      [] x.k = "int" -> x.v # 0
      [] x.k = "str" -> x.v # << >>
      [] x.k = "list" -> x.v # << >>
      [] x.k = "dict" -> DOMAIN x.v # {}
      [] OTHER -> TRUE

\* d.get(key, default) on a dict modelled as a function
Get(d, key, default) == IF key \in DOMAIN d THEN d[key] ELSE default

(* ------------------------------------------------------------------ *)
(* str methods on character sequences                                   *)
(* ------------------------------------------------------------------ *)
StartsWith(s, p) == Len(p) <= Len(s) /\ SubSeq(s, 1, Len(p)) = p

Drop(s, n) == SubSeq(s, n + 1, Len(s))

\* s.replace(old, ""): every non-overlapping occurrence, left to right
RECURSIVE Replace(_, _)
Replace(s, old) ==
    IF s = << >> THEN << >>
    ELSE IF StartsWith(s, old) THEN Replace(Drop(s, Len(old)), old)
    ELSE <<Head(s)>> \o Replace(Tail(s), old)

\* s.lstrip(c) and s.rstrip(c) for a single character c
RECURSIVE LStrip(_, _)
LStrip(s, c) == IF s # << >> /\ Head(s) = c THEN LStrip(Tail(s), c) ELSE s

RECURSIVE RStrip(_, _)
RStrip(s, c) ==
    IF s # << >> /\ s[Len(s)] = c THEN RStrip(SubSeq(s, 1, Len(s) - 1), c) ELSE s

DigitChars == <<"0", "1", "2", "3", "4", "5", "6", "7", "8", "9">>
IsDigit(c) == \E i \in 1..Len(DigitChars) : DigitChars[i] = c
DigitVal(c) == (CHOOSE i \in 1..Len(DigitChars) : DigitChars[i] = c) - 1

\* the value of a non-empty run of decimal digits
RECURSIVE DigitsValue(_)
DigitsValue(s) ==
    IF s = << >> THEN 0
    ELSE DigitsValue(SubSeq(s, 1, Len(s) - 1)) * 10 + DigitVal(s[Len(s)])

AllDigits(s) == s # << >> /\ \A i \in 1..Len(s) : IsDigit(s[i])

\* str(n) of an int
RECURSIVE NatChars(_)
NatChars(n) ==
    IF n < 10 THEN <<DigitChars[n + 1]>>
    ELSE NatChars(n \div 10) \o <<DigitChars[(n % 10) + 1]>>

IntChars(n) == IF n < 0 THEN <<"-">> \o NatChars(0 - n) ELSE NatChars(n)

\* str(x)
PyStr(x) ==
    CASE x.k = "int" -> IntChars(x.v)
      [] x.k = "str" -> x.v
      [] x.k = "float" -> <<"1", ".", "5">>
      [] x.k = "none" -> <<"N", "o", "n", "e">>
      [] OTHER -> <<"[", "]">>

\* int(s) of a str: an optional sign, then decimal digits only. NoneV stands
\* for the ValueError. (Surrounding whitespace and digit-group underscores,
\* which int() also accepts, are outside the alphabet of the model.)
PyInt(s) ==
    IF s # << >> /\ Head(s) \in {"-", "+"} /\ AllDigits(Tail(s))
    THEN IntV(IF Head(s) = "-" THEN 0 - DigitsValue(Tail(s)) ELSE DigitsValue(Tail(s)))
    ELSE IF AllDigits(s) THEN IntV(DigitsValue(s))
    ELSE NoneV

(* ------------------------------------------------------------------ *)
(* helpers for both modes                                               *)
(* ------------------------------------------------------------------ *)

\* the first maximal run of decimal digits of s, << >> when there is none:
\* the group re.search(r'(\d+)', s) matches
RECURSIVE DigitRun(_)
DigitRun(s) ==
    IF s = << >> \/ ~IsDigit(Head(s)) THEN << >>
    ELSE <<Head(s)>> \o DigitRun(Tail(s))

RECURSIVE FirstDigitRun(_)
FirstDigitRun(s) ==
    IF s = << >> THEN << >>
    ELSE IF IsDigit(Head(s)) THEN DigitRun(s)
    ELSE FirstDigitRun(Tail(s))

guess_token_id_from_filename(stem) ==
    IF FirstDigitRun(stem) = << >> THEN NoneV
    ELSE IntV(DigitsValue(FirstDigitRun(stem)))

IdKeys == <<"token_id", "edition", "tokenId", "id">>

\* an unparseable present key ends the search instead of being passed over
RECURSIVE TokenIdFromBlocking(_, _)
TokenIdFromBlocking(d, i) ==
    IF i > Len(IdKeys) THEN NoneV
    ELSE IF IdKeys[i] \in DOMAIN d
         THEN PyInt(PyStr(d[IdKeys[i]]))
         ELSE TokenIdFromBlocking(d, i + 1)

\* the loop over IdKeys from position i on: the first key that is present and
\* whose str() parses as an int
RECURSIVE TokenIdFrom(_, _)
TokenIdFrom(d, i) ==
    IF i > Len(IdKeys) THEN NoneV
    ELSE IF IdKeys[i] \in DOMAIN d /\ PyInt(PyStr(d[IdKeys[i]])) # NoneV
         THEN PyInt(PyStr(d[IdKeys[i]]))
         ELSE TokenIdFrom(d, i + 1)

get_token_id_from_json(d) == TokenIdFrom(d, 1)

\* id_from is "filename", "json" or "auto" (the option not given)
resolve_token_id(d, stem, id_from) ==
    LET tid_fn == guess_token_id_from_filename(stem)
        tid_js == get_token_id_from_json(d)
    IN  IF id_from = "filename" THEN tid_fn
        ELSE IF id_from = "json" THEN tid_js
        ELSE IF tid_js # NoneV THEN tid_js ELSE tid_fn

IpfsScheme == <<"i", "p", "f", "s", ":", "/", "/">>
IpfsSeg == <<"i", "p", "f", "s", "/">>
HttpWord == <<"h", "t", "t", "p">>

\* prefix is NoneV or a StrV; the result is a character sequence
normalize_image(img, prefix) ==
    IF img.k # "str" THEN << >>
    ELSE IF Truthy(prefix)
            /\ (StartsWith(img.v, IpfsScheme) \/ ~StartsWith(img.v, HttpWord))
    THEN LET replaced == Replace(img.v, IpfsScheme)
             ipfs_path == IF StartsWith(replaced, IpfsSeg) THEN Drop(replaced, 5)
                          ELSE replaced
         IN  RStrip(prefix.v, "/") \o <<"/">> \o LStrip(ipfs_path, "/")
    ELSE img.v

(* ------------------------------------------------------------------ *)
(* trait extraction (parse_json_file and normalize_one share it)        *)
(* ------------------------------------------------------------------ *)

\* a.get("trait_type") or a.get("trait") or a.get("type")
trait_name_of(a) ==
    IF Truthy(Get(a, "trait_type", NoneV)) THEN a["trait_type"]
    ELSE IF Truthy(Get(a, "trait", NoneV)) THEN a["trait"]
    ELSE Get(a, "type", NoneV)

HasKey(m, key) == \E j \in 1..Len(m) : m[j][1] = key

\* a first assignment is kept, a later one for the same key is dropped
dict_setdefault(m, key, val) ==
    IF HasKey(m, key) THEN m ELSE Append(m, <<key, val>>)

\* m[key] = val on an insertion-ordered dict: a present key keeps its place
\* and takes the new value, a new key goes last
dict_set(m, key, val) ==
    IF HasKey(m, key)
    THEN [j \in 1..Len(m) |-> IF m[j][1] = key THEN <<key, val>> ELSE m[j]]
    ELSE Append(m, <<key, val>>)

\* one iteration of `for a in atts`
trait_loop_body(trait_map, a) ==
    IF a.k # "dict" THEN trait_map
    ELSE LET t == trait_name_of(a.v)
             v == Get(a.v, "value", EmptyStr)
         IN  IF Truthy(t) THEN dict_set(trait_map, PyStr(t), v) ELSE trait_map

RECURSIVE TraitLoop(_, _)
TraitLoop(trait_map, atts) ==
    IF atts = << >> THEN trait_map
    ELSE TraitLoop(trait_loop_body(trait_map, Head(atts)), Tail(atts))

\* the trait_map of a document d
extract_traits(d) ==
    LET atts == Get(d, "attributes", ListV(<< >>))
    IN  IF atts.k = "list" THEN TraitLoop(<< >>, atts.v) ELSE << >>

(* ------------------------------------------------------------------ *)
(* the filename column                                                  *)
(* ------------------------------------------------------------------ *)
\* the outcome of a call that may raise: Ok(value), or RaiseV for the exception
RaiseV == [k |-> "raise", v |-> 0]
Ok(x) == [k |-> "ok", v |-> x]

\* the position of the first occurrence of character c in s, 0 when absent
FindChar(s, c) ==
    IF \E i \in 1..Len(s) : s[i] = c
    THEN CHOOSE i \in 1..Len(s) : s[i] = c /\ \A j \in 1..(i - 1) : s[j] # c
    ELSE 0

\* the position of the last occurrence of character c in s, 0 when absent
RFindChar(s, c) ==
    IF \E i \in 1..Len(s) : s[i] = c
    THEN CHOOSE i \in 1..Len(s) : s[i] = c /\ \A j \in (i + 1)..Len(s) : s[j] # c
    ELSE 0

\* Path(s).name: the last component, trailing slashes ignored
PathName(s) ==
    LET t == RStrip(s, "/")
    IN  Drop(t, RFindChar(t, "/"))

\* urlparse(s).path for a string with a scheme (no query, fragment or params
\* characters are in the alphabet): what follows scheme: and, after //, the
\* network location
UrlPath(s) ==
    LET rest == Drop(s, FindChar(s, ":"))
    IN  IF StartsWith(rest, <<"/", "/">>)
        THEN LET after == Drop(rest, 2)
             IN  IF FindChar(after, "/") = 0 THEN << >>
                 ELSE Drop(after, FindChar(after, "/") - 1)
        ELSE rest

\* urlparse(s).scheme is non-empty: a letter-initial run before the first ":"
\* (the alphabet holds no character a scheme may not contain except "/")
HasScheme(s) ==
    /\ FindChar(s, ":") > 1
    /\ ~IsDigit(s[1])
    /\ \A i \in 1..(FindChar(s, ":") - 1) : s[i] # "/"

basename_from_url_or_path(x) ==
    IF x.k # "str" \/ x.v = << >> THEN << >>
    ELSE IF HasScheme(x.v) /\ UrlPath(x.v) # << >> THEN PathName(UrlPath(x.v))
    ELSE PathName(x.v)

DotPng == <<".", "p", "n", "g">>

\* Path(name).suffix, or the default
ext_from_name(name) ==
    LET i == RFindChar(name, ".")
    IN  IF 1 < i /\ i < Len(name) THEN Drop(name, i - 1) ELSE DotPng

\* template.format(...): a template is the sequence of its literal parts
\* [k |-> "lit"] and replacement fields [k |-> "field"]; RaiseV is the KeyError
\* of a field that is none of the keyword arguments
RECURSIVE Format(_, _)
Format(template, kw) ==
    IF template = << >> THEN Ok(<< >>)
    ELSE LET part == Head(template)
             rest == Format(Tail(template), kw)
         IN  IF part.k = "field" /\ part.v \notin DOMAIN kw THEN RaiseV
             ELSE IF rest = RaiseV THEN RaiseV
             ELSE IF part.k = "field" THEN Ok(kw[part.v] \o rest.v)
             ELSE Ok(part.v \o rest.v)

render_filename_col(template, token_id, stem, image_raw) ==
    LET image_name == basename_from_url_or_path(image_raw)
        image_ext == ext_from_name(image_name)
        safe_tid == IF token_id = NoneV THEN << >> ELSE PyStr(token_id)
        kw == [token_id |-> safe_tid,
               stem |-> stem,
               image |-> IF Truthy(image_raw) THEN PyStr(image_raw) ELSE << >>,
               image_name |-> image_name,
               image_ext |-> image_ext]
        r == Format(template, kw)
    IN  IF r = RaiseV THEN RaiseV ELSE StrV(r.v)

(* ------------------------------------------------------------------ *)
(* folder mode: parse per-file                                          *)
(* ------------------------------------------------------------------ *)
BadJson == [k |-> "bad", v |-> 0]

\* the normalized item of document d
make_item(d, token_id, stem, image_prefix) ==
    [token_id |-> token_id,
     name |-> Get(d, "name", EmptyStr),
     description |-> Get(d, "description", EmptyStr),
     image |-> StrV(normalize_image(Get(d, "image", EmptyStr), image_prefix)),
     image_raw |-> Get(d, "image", EmptyStr),
     external_url |-> Get(d, "external_url", EmptyStr),
     animation_url |-> Get(d, "animation_url", EmptyStr),
     background_color |-> Get(d, "background_color", EmptyStr),
     youtube_url |-> Get(d, "youtube_url", EmptyStr),
     traits |-> extract_traits(d),
     _stem |-> stem]

\* a file is [stem, content]; unparseable text raises in json.loads, a JSON
\* value that is no object raises at the first d.get
parse_json_file(p, id_from, image_prefix) ==
    IF p.content.k # "dict" THEN RaiseV
    ELSE Ok(make_item(p.content.v, resolve_token_id(p.content.v, p.stem, id_from),
                      p.stem, image_prefix))

(* ------------------------------------------------------------------ *)
(* metadata.json mode: load aggregated                                  *)
(* ------------------------------------------------------------------ *)
ItemWord == <<"i", "t", "e", "m">>

normalize_one(obj, key_for_stem, image_prefix) ==
    LET token_id == get_token_id_from_json(obj)
        stem == IF key_for_stem # << >> THEN key_for_stem
                ELSE IF token_id # NoneV THEN PyStr(token_id) ELSE ItemWord
    IN  make_item(obj, token_id, stem, image_prefix)

\* for idx, obj in enumerate(raw, start=1), from position i on
RECURSIVE LoadList(_, _, _)
LoadList(raw, i, image_prefix) ==
    IF i > Len(raw) THEN << >>
    ELSE (IF raw[i].k = "dict"
          THEN <<normalize_one(raw[i].v, IntChars(i), image_prefix)>>
          ELSE << >>) \o LoadList(raw, i + 1, image_prefix)

\* obj with token_id set from the key when obj has none and the key is an int
WithKeyId(obj, key) ==
    IF "token_id" \notin DOMAIN obj /\ PyInt(key) # NoneV
    THEN [x \in DOMAIN obj \cup {"token_id"} |->
              IF x = "token_id" THEN PyInt(key) ELSE obj[x]]
    ELSE obj

\* for k, obj in raw.items(), from position i on; raw is the sequence of the
\* object's <<key, value>> pairs in document order
RECURSIVE LoadDict(_, _, _)
LoadDict(raw, i, image_prefix) ==
    IF i > Len(raw) THEN << >>
    ELSE (IF raw[i][2].k = "dict"
          THEN <<normalize_one(WithKeyId(raw[i][2].v, raw[i][1]), raw[i][1],
                               image_prefix)>>
          ELSE << >>) \o LoadDict(raw, i + 1, image_prefix)

\* raw is BadJson (json.loads raises), a ListV, an [k |-> "odict"] of pairs, or
\* another JSON value (SystemExit): RaiseV stands for both fatal outcomes
load_metadata_file(raw, image_prefix) ==
    IF raw.k = "list" THEN Ok(LoadList(raw.v, 1, image_prefix))
    ELSE IF raw.k = "odict" THEN Ok(LoadDict(raw.v, 1, image_prefix))
    ELSE RaiseV

(* ------------------------------------------------------------------ *)
(* main: listing, header, rows, sort                                    *)
(* ------------------------------------------------------------------ *)

\* code-point order of the characters file names are made of (all of them
\* above ".", so that stems compare as the names with their .json suffix do)
CharOrder == DigitChars \o <<"A", "B">> \o <<"a", "b", "c", "d", "e">>
CharRank(c) == CHOOSE i \in 1..Len(CharOrder) : CharOrder[i] = c

\* s < t for str
RECURSIVE LexLess(_, _)
LexLess(s, t) ==
    IF t = << >> THEN FALSE
    ELSE IF s = << >> THEN TRUE
    ELSE IF Head(s) = Head(t) THEN LexLess(Tail(s), Tail(t))
    ELSE CharRank(Head(s)) < CharRank(Head(t))

\* sorted(...) of the folder's *.json entries (a set of files, named apart)
RECURSIVE read_all_json(_)
read_all_json(in_dir) ==
    IF in_dir = {} THEN << >>
    ELSE LET first == CHOOSE p \in in_dir :
                          \A q \in in_dir \ {p} : LexLess(p.stem, q.stem)
         IN  <<first>> \o read_all_json(in_dir \ {first})

\* the names of trait map m, in insertion order
TraitKeys(m) == [j \in 1..Len(m) |-> m[j][1]]

InSeq(x, sq) == \E j \in 1..Len(sq) : sq[j] = x

\* the names of ks not in order yet, appended in their order
RECURSIVE AppendUnseen(_, _)
AppendUnseen(order, ks) ==
    IF ks = << >> THEN order
    ELSE AppendUnseen(IF InSeq(Head(ks), order) THEN order ELSE Append(order, Head(ks)),
                      Tail(ks))

\* names sorted instead of kept in first-seen order
RECURSIVE SortedNames(_)
SortedNames(S) ==
    IF S = {} THEN << >>
    ELSE LET first == CHOOSE a \in S : \A b \in S \ {a} : LexLess(a, b)
         IN  <<first>> \o SortedNames(S \ {first})

RECURSIVE NamesOf(_)
NamesOf(items) ==
    IF items = << >> THEN {}
    ELSE {Head(items).traits[j][1] : j \in 1..Len(Head(items).traits)}
         \cup NamesOf(Tail(items))

unify_traits_sorted(items) == SortedNames(NamesOf(items))

\* all_traits_order after the scan of items
RECURSIVE UnifyFrom(_, _)
UnifyFrom(order, items) ==
    IF items = << >> THEN order
    ELSE UnifyFrom(AppendUnseen(order, TraitKeys(Head(items).traits)), Tail(items))

unify_traits(items) == UnifyFrom(<< >>, items)

default_base ==
    <<"token_id", "name", "description", "image", "external_url", "animation_url",
      "background_color", "youtube_url">>

RECURSIVE FilterAllowed(_)
FilterAllowed(fields) ==
    IF fields = << >> THEN << >>
    ELSE (IF InSeq(Head(fields), default_base) THEN <<Head(fields)>> ELSE << >>)
         \o FilterAllowed(Tail(fields))

select_base_cols(c) ==
    IF c.only_traits THEN << >>
    ELSE IF Truthy(c.fields) THEN FilterAllowed(c.fields.v)
    ELSE default_base

filename_col_name(c) == IF Truthy(c.filename_col) THEN c.filename_col ELSE NoneV

\* a header cell is a base column [k |-> "col"] or the text of a name
make_header(cols, fname, traits_order) ==
    [j \in 1..Len(cols) |-> [k |-> "col", v |-> cols[j]]]
    \o (IF fname # NoneV THEN <<fname>> ELSE << >>)
    \o [j \in 1..Len(traits_order) |-> StrV(traits_order[j])]

\* it["traits"].get(t, "")
TraitGet(m, t) ==
    IF HasKey(m, t) THEN m[CHOOSE j \in 1..Len(m) : m[j][1] = t][2] ELSE EmptyStr

\* the trait cells of an item that only writes the traits it has
trait_cells_present(it, traits_order) ==
    LET present == SelectSeq(traits_order, LAMBDA t : HasKey(it.traits, t))
    IN  [j \in 1..Len(present) |-> TraitGet(it.traits, present[j])]

trait_cells(it, traits_order) ==
    [j \in 1..Len(traits_order) |-> TraitGet(it.traits, traits_order[j])]

\* the row of one item, RaiseV when the filename template raises
make_row(it, c, cols, traits_order) ==
    LET base == [j \in 1..Len(cols) |-> Get(it, cols[j], EmptyStr)]
        fname == IF filename_col_name(c) # NoneV
                 THEN render_filename_col(c.filename_tmpl, it.token_id, it["_stem"],
                                          it.image_raw)
                 ELSE NoneV
    IN  IF fname = RaiseV THEN RaiseV
        ELSE Ok(base \o (IF fname # NoneV THEN <<fname>> ELSE << >>)
                     \o trait_cells(it, traits_order))

\* (x["token_id"] is None, x["token_id"]) of a is less than that of b
KeyLess(a, b) ==
    IF a.token_id = NoneV THEN FALSE
    ELSE IF b.token_id = NoneV THEN TRUE
    ELSE a.token_id.v < b.token_id.v

\* an item without token_id sorts as 0
KeyLessNoneZero(a, b) ==
    (IF a.token_id = NoneV THEN 0 ELSE a.token_id.v)
    < (IF b.token_id = NoneV THEN 0 ELSE b.token_id.v)

\* x placed after every element that is not greater: the stable insertion
RECURSIVE InsertStable(_, _)
InsertStable(sorted, x) ==
    IF sorted = << >> THEN <<x>>
    ELSE IF KeyLess(x, Head(sorted)) THEN <<x>> \o sorted
    ELSE <<Head(sorted)>> \o InsertStable(Tail(sorted), x)

RECURSIVE SortFrom(_, _)
SortFrom(sorted, items) ==
    IF items = << >> THEN sorted
    ELSE SortFrom(InsertStable(sorted, Head(items)), Tail(items))

RECURSIVE InsertNoneZero(_, _)
InsertNoneZero(sorted, x) ==
    IF sorted = << >> THEN <<x>>
    ELSE IF KeyLessNoneZero(x, Head(sorted)) THEN <<x>> \o sorted
    ELSE <<Head(sorted)>> \o InsertNoneZero(Tail(sorted), x)

RECURSIVE SortNoneZeroFrom(_, _)
SortNoneZeroFrom(sorted, items) ==
    IF items = << >> THEN sorted
    ELSE SortNoneZeroFrom(InsertNoneZero(sorted, Head(items)), Tail(items))

sort_items_none_zero(items) == SortNoneZeroFrom(<< >>, items)

\* list.sort(key=...): stable
sort_items(items) == SortFrom(<< >>, items)

MetadataCsv == <<"m", "e", "t", "a", "d", "a", "t", "a", ".", "c", "s", "v">>

\* metadata.csv is not defaulted to
aggregate_path_explicit_only(c) ==
    IF Truthy(c.aggregate) THEN c.aggregate.v ELSE NoneV

\* agg_path, NoneV when no aggregated CSV is to be written
aggregate_path(c) ==
    IF Truthy(c.aggregate) THEN c.aggregate.v
    ELSE IF Truthy(c.metadata) THEN MetadataCsv
    ELSE NoneV

(* ------------------------------------------------------------------ *)
(* normalize_image called on its own                                    *)
(* ------------------------------------------------------------------ *)
NoFile == [k |-> "nofile", v |-> 0]

\* the run's variables while a helper is checked on its own
MainIdle ==
    /\ cfg = NoneV /\ input = NoneV
    /\ items_list = << >> /\ all_traits_order = << >> /\ base_cols = << >>
    /\ header = << >> /\ per_files = << >> /\ agg_file = NoFile
    /\ agg_items = << >> /\ out = << >>

RECURSIVE Concat(_)
Concat(ss) == IF ss = << >> THEN << >> ELSE Head(ss) \o Concat(Tail(ss))

SeqsUpTo(S, n) == UNION {[1..m -> S] : m \in 0..n}

MaxImgSegs == 3

ImgSegs ==
    {IpfsScheme, IpfsSeg, <<"/">>, HttpWord, <<"s", ":", "/", "/", "h", "/">>, <<"Q">>}

ImgInputs ==
    {StrV(Concat(ss)) : ss \in SeqsUpTo(ImgSegs, MaxImgSegs)} \cup {NoneV, IntV(1)}

GatewayPrefix == <<"h", "t", "t", "p", "s", ":", "/", "/", "g", "w">>

PrefixInputs ==
    {NoneV, StrV(<< >>), StrV(GatewayPrefix), StrV(GatewayPrefix \o <<"/">>),
     StrV(GatewayPrefix \o <<"/", "/">>)}

ImgInit ==
    /\ MainIdle
    /\ pc = "img_call"
    /\ args \in [img : ImgInputs, prefix : PrefixInputs]
    /\ result = NoneV
    /\ idx = 0

ImgCall ==
    /\ pc = "img_call"
    /\ result' = StrV(normalize_image(args.img, args.prefix))
    /\ pc' = "img_ret"
    /\ UNCHANGED <<mainVars, args, idx>>

ImgNext == ImgCall

SpecImg == ImgInit /\ [][ImgNext]_vars

\* The image as the claim describes it: only a leading ipfs:// is removed, then
\* one ipfs/ segment that follows, then leading slashes.
ClaimedPath(s) ==
    LET a == IF StartsWith(s, IpfsScheme) THEN Drop(s, Len(IpfsScheme)) ELSE s
        b == IF StartsWith(a, IpfsSeg) THEN Drop(a, Len(IpfsSeg)) ELSE a
    IN  LStrip(b, "/")

ClaimedImage(img, prefix) ==
    IF img.k # "str" THEN << >>
    ELSE IF Truthy(prefix)
            /\ (StartsWith(img.v, IpfsScheme) \/ ~StartsWith(img.v, HttpWord))
    THEN RStrip(prefix.v, "/") \o <<"/">> \o ClaimedPath(img.v)
    ELSE img.v

\* C10: normalize_image returns the empty string for a non-string image; with a
\* prefix configured and an image that starts with ipfs:// or does not start
\* with http, the prefix without trailing slash, "/", and the image without its
\* leading ipfs://, without one following ipfs/ segment and without leading
\* slashes; otherwise the image unchanged. And ipfs://ipfs/P gives what
\* ipfs://P gives (P not itself starting with ipfs/).
C10_ImageAsClaimed ==
    pc = "img_ret" =>
        /\ result = StrV(ClaimedImage(args.img, args.prefix))
        /\ (/\ args.img.k = "str"
            /\ StartsWith(args.img.v, IpfsScheme \o IpfsSeg)
            /\ ~StartsWith(Drop(args.img.v, Len(IpfsScheme \o IpfsSeg)), IpfsSeg))
           => result = StrV(normalize_image(
                  StrV(IpfsScheme \o Drop(args.img.v, Len(IpfsScheme \o IpfsSeg))),
                  args.prefix))

(* ------------------------------------------------------------------ *)
(* token id resolution of parse_json_file, called on its own            *)
(* ------------------------------------------------------------------ *)

IdFromModes == {"filename", "json", "auto"}

MaxStemLen == 3

StemChars == {"a", "1", "2"}

StemInputs == SeqsUpTo(StemChars, MaxStemLen)

IdVals == {IntV(1), StrV(<<"2">>), StrV(<<"x">>), FloatV}

IdDocs == UNION {[K -> IdVals] : K \in SUBSET {IdKeys[i] : i \in 1..Len(IdKeys)}}

TidInit ==
    /\ MainIdle
    /\ pc = "tid_call"
    /\ args \in [d : IdDocs, stem : StemInputs, id_from : IdFromModes]
    /\ result = NoneV
    /\ idx = 0

TidCall ==
    /\ pc = "tid_call"
    /\ result' = resolve_token_id(args.d, args.stem, args.id_from)
    /\ pc' = "tid_ret"
    /\ UNCHANGED <<mainVars, args, idx>>

TidNext == TidCall

SpecTid == TidInit /\ [][TidNext]_vars

\* the positions of IdKeys whose key is present in d with an integer-parseable value
Qualifying(d) ==
    {i \in 1..Len(IdKeys) : IdKeys[i] \in DOMAIN d /\ PyInt(PyStr(d[IdKeys[i]])) # NoneV}

ClaimedJsonId(d) ==
    IF Qualifying(d) = {} THEN NoneV
    ELSE LET i == CHOOSE q \in Qualifying(d) : \A r \in Qualifying(d) : q <= r
         IN  PyInt(PyStr(d[IdKeys[i]]))

\* stem[i..j] is the first maximal run of decimal digits of stem
IsFirstRun(stem, i, j) ==
    /\ \A n \in 1..(i - 1) : ~IsDigit(stem[n])
    /\ \A n \in i..j : IsDigit(stem[n])
    /\ j = Len(stem) \/ ~IsDigit(stem[j + 1])

ClaimedFilenameId(stem) ==
    IF \A n \in 1..Len(stem) : ~IsDigit(stem[n]) THEN NoneV
    ELSE LET ij == CHOOSE r \in (1..Len(stem)) \X (1..Len(stem)) :
                       r[1] <= r[2] /\ IsFirstRun(stem, r[1], r[2])
         IN  IntV(DigitsValue(SubSeq(stem, ij[1], ij[2])))

\* C4: in json mode the token id is the value of the first key, in the order
\* token_id, edition, tokenId, id, that is present and parses as an integer
\* (none: absent); in filename mode the first run of decimal digits of the
\* stem (none: absent); in auto mode the json id unless absent, else the
\* filename id.
C4_TokenIdResolution ==
    pc = "tid_ret" =>
        /\ args.id_from = "json" => result = ClaimedJsonId(args.d)
        /\ args.id_from = "filename" => result = ClaimedFilenameId(args.stem)
        /\ args.id_from = "auto" =>
               result = IF ClaimedJsonId(args.d) # NoneV THEN ClaimedJsonId(args.d)
                        ELSE ClaimedFilenameId(args.stem)

\* a higher-priority key is present but unparseable, a lower one gives the id,
\* in auto mode with digits in the stem as well
C4_Witness ==
    /\ pc = "tid_ret" /\ args.id_from = "auto"
    /\ "token_id" \in DOMAIN args.d /\ args.d["token_id"] = StrV(<<"x">>)
    /\ "id" \in DOMAIN args.d /\ "edition" \notin DOMAIN args.d
    /\ "tokenId" \notin DOMAIN args.d
    /\ args.stem = <<"a", "1", "2">>
    /\ result = IntV(2)

(* ------------------------------------------------------------------ *)
(* trait extraction, called on its own, one loop iteration per step     *)
(* ------------------------------------------------------------------ *)
TraitA == StrV(<<"A">>)
TraitB == StrV(<<"B">>)

AttEntries ==
    {DictV([trait_type |-> TraitA, value |-> IntV(1)]),
     DictV([trait_type |-> TraitA, value |-> IntV(2)]),
     DictV([trait_type |-> TraitB, value |-> IntV(1)]),
     DictV([trait |-> TraitA, value |-> IntV(3)]),
     DictV([type |-> TraitB]),
     DictV([trait_type |-> EmptyStr, trait |-> TraitB, value |-> IntV(2)]),
     DictV([trait_type |-> IntV(1), value |-> StrV(<<"x">>)]),
     DictV([value |-> IntV(1)]),
     StrV(<<"x">>)}

MaxAtts == 3

AttsInputs == {ListV(s) : s \in SeqsUpTo(AttEntries, MaxAtts)} \cup {NoneV, StrV(<<"x">>)}

TraitsInit ==
    /\ MainIdle
    /\ pc = "traits_call"
    /\ args \in [atts : AttsInputs]
    /\ result = << >>
    /\ idx = 0

\* trait_map = {}; atts = d.get("attributes", []); if isinstance(atts, list)
TraitsCall ==
    /\ pc = "traits_call"
    /\ pc' = IF args.atts.k = "list" THEN "traits_loop" ELSE "traits_ret"
    /\ idx' = 1
    /\ UNCHANGED <<mainVars, args, result>>

TraitsIter ==
    /\ pc = "traits_loop"
    /\ idx <= Len(args.atts.v)
    /\ result' = trait_loop_body(result, args.atts.v[idx])
    /\ idx' = idx + 1
    /\ UNCHANGED <<mainVars, args, pc>>

TraitsReturn ==
    /\ pc = "traits_loop"
    /\ idx > Len(args.atts.v)
    /\ pc' = "traits_ret"
    /\ UNCHANGED <<mainVars, args, result, idx>>

TraitsNext == TraitsCall \/ TraitsIter \/ TraitsReturn

SpecTraits == TraitsInit /\ [][TraitsNext]_vars

\* entry a of an attributes list resolves to a trait name
Named(a) == a.k = "dict" /\ Truthy(trait_name_of(a.v))
NameOf(a) == PyStr(trait_name_of(a.v))
ValueOf(a) == Get(a.v, "value", EmptyStr)

\* the positions of the entries of atts that resolve to the name of entry i
SameName(atts, i) ==
    {j \in 1..Len(atts) : Named(atts[j]) /\ NameOf(atts[j]) = NameOf(atts[i])}

\* the value the finished trait map holds for a name, which it holds once
HoldsOnce(m, name, val) ==
    /\ Cardinality({j \in 1..Len(m) : m[j][1] = name}) = 1
    /\ \A j \in 1..Len(m) : m[j][1] = name => m[j][2] = val

\* C5 as stated: of several entries that resolve to the same trait name, the
\* trait map keeps the value of the first, and holds the name once.
C5_FirstOccurrenceWins ==
    (pc = "traits_ret" /\ args.atts.k = "list") =>
        \A i \in 1..Len(args.atts.v) :
            (Named(args.atts.v[i])
             /\ \A j \in SameName(args.atts.v, i) : i <= j)
            => HoldsOnce(result, NameOf(args.atts.v[i]), ValueOf(args.atts.v[i]))

\* C5 amended: of several entries that resolve to the same trait name, the
\* trait map keeps the value of the last, and holds the name once.
C5_LastOccurrenceWins ==
    (pc = "traits_ret" /\ args.atts.k = "list") =>
        \A i \in 1..Len(args.atts.v) :
            (Named(args.atts.v[i])
             /\ \A j \in SameName(args.atts.v, i) : j <= i)
            => HoldsOnce(result, NameOf(args.atts.v[i]), ValueOf(args.atts.v[i]))

\* three entries resolve to the name A, through two different keys and with
\* three different values
C5_Witness ==
    /\ pc = "traits_ret"
    /\ args.atts = ListV(<<DictV([trait_type |-> TraitA, value |-> IntV(1)]),
                           DictV([trait |-> TraitA, value |-> IntV(3)]),
                           DictV([trait_type |-> TraitA, value |-> IntV(2)])>>)
    /\ result = <<(<<(<<"A">>), IntV(2)>>)>>

(* ------------------------------------------------------------------ *)
(* main(): one run                                                      *)
(* ------------------------------------------------------------------ *)
MaxDocs == 3

Field(name) == [k |-> "field", v |-> name]
Lit(chars) == [k |-> "lit", v |-> chars]

\* "{token_id}.png" (the default) and "{foo}.png"
TemplateDefault == <<Field("token_id"), Lit(DotPng)>>
TemplateBad == <<Field("foo"), Lit(DotPng)>>

FilenameWord == <<"f", "i", "l", "e", "n", "a", "m", "e">>
OutCsv == <<"o", "u", "t", ".", "c", "s", "v">>

Att(name, val) == DictV([trait_type |-> name, value |-> val])

Doc1 ==
    [token_id |-> IntV(3), name |-> StrV(<<"n">>),
     image |-> StrV(IpfsScheme \o <<"Q", "/", "1", ".", "p">>),
     attributes |-> ListV(<<Att(TraitA, IntV(1))>>)]
Doc2 ==
    [edition |-> StrV(<<"1">>),
     attributes |-> ListV(<<Att(TraitB, IntV(2)), Att(TraitA, IntV(3)), Att(TraitB, IntV(4))>>)]
Doc3 == [name |-> StrV(<<"m">>)]

Docs == {DictV(Doc1), DictV(Doc2), DictV(Doc3)}

FolderStems == << <<"a">>, <<"b", "3">>, <<"c", "1">>, <<"d", "3">>, <<"e">> >>
DictKeys == << <<"7">>, <<"c">>, <<"2">>, <<"0", "7">>, <<"e">> >>

FolderInputs ==
    {[k |-> "folder",
      v |-> {[stem |-> FolderStems[i], content |-> c[i]] : i \in DOMAIN c}] :
        c \in SeqsUpTo(Docs \cup {BadJson}, MaxDocs)}

MetaInputs ==
    {[k |-> "missing", v |-> 0], [k |-> "meta", v |-> BadJson], [k |-> "meta", v |-> IntV(1)]}
    \cup {[k |-> "meta", v |-> ListV(c)] : c \in SeqsUpTo(Docs \cup {IntV(1)}, MaxDocs)}
    \cup {[k |-> "meta",
           v |-> [k |-> "odict", v |-> [i \in DOMAIN c |-> <<DictKeys[i], c[i]>>]]] :
             c \in SeqsUpTo(Docs \cup {IntV(1)}, MaxDocs)}

\* the options every run reads
CommonOptions ==
    [do_sort : BOOLEAN,
     aggregate : {NoneV, StrV(OutCsv)},
     no_header : BOOLEAN,
     cols : {[only_traits |-> TRUE, fields |-> NoneV],
             [only_traits |-> FALSE, fields |-> ListV(<<"name", "bogus", "token_id">>)],
             [only_traits |-> FALSE, fields |-> NoneV]},
     fname : {[filename_col |-> NoneV, filename_tmpl |-> TemplateDefault],
              [filename_col |-> StrV(FilenameWord), filename_tmpl |-> TemplateDefault],
              [filename_col |-> StrV(FilenameWord), filename_tmpl |-> TemplateBad]},
     image_prefix : {StrV(GatewayPrefix)}]

MakeCfg(o, metadata, emit_per_file, id_from) ==
    [metadata |-> metadata, emit_per_file |-> emit_per_file, id_from |-> id_from,
     do_sort |-> o.do_sort, aggregate |-> o.aggregate, no_header |-> o.no_header,
     only_traits |-> o.cols.only_traits, fields |-> o.cols.fields,
     filename_col |-> o.fname.filename_col, filename_tmpl |-> o.fname.filename_tmpl,
     image_prefix |-> o.image_prefix]

\* --id-from is read in folder mode only, --emit-per-file in metadata mode only
Init ==
    /\ \E o \in CommonOptions :
          \/ /\ \E id_from \in IdFromModes : cfg = MakeCfg(o, NoneV, FALSE, id_from)
             /\ input \in FolderInputs
          \/ /\ \E e \in BOOLEAN : cfg = MakeCfg(o, StrV(<<"m">>), e, "auto")
             /\ input \in MetaInputs
    /\ pc = "start"
    /\ idx = 0
    /\ items_list = << >> /\ all_traits_order = << >> /\ base_cols = << >>
    /\ header = << >> /\ per_files = << >> /\ agg_file = NoFile
    /\ agg_items = << >> /\ out = << >>
    /\ args = NoneV /\ result = NoneV

folder_mode == ~Truthy(cfg.metadata)

Abort ==
    /\ pc' = "aborted"
    /\ out' = Append(out, "error")

\* metadata mode: the path is missing, or the file does not load, or it loads
LoadMetadata ==
    /\ pc = "start" /\ ~folder_mode
    /\ IF input.k = "missing" \/ load_metadata_file(input.v, cfg.image_prefix) = RaiseV
       THEN Abort /\ UNCHANGED items_list
       ELSE /\ items_list' = load_metadata_file(input.v, cfg.image_prefix).v
            /\ pc' = "unify"
            /\ out' = out
    /\ UNCHANGED <<cfg, input, idx, all_traits_order, base_cols, header, per_files,
                   agg_file, agg_items, args, result>>

\* folder mode: the listing; no file is fatal
ReadFolder ==
    /\ pc = "start" /\ folder_mode
    /\ IF read_all_json(input.v) = << >>
       THEN Abort /\ idx' = idx
       ELSE pc' = "parse" /\ idx' = 1 /\ out' = out
    /\ UNCHANGED <<cfg, input, items_list, all_traits_order, base_cols, header,
                   per_files, agg_file, agg_items, args, result>>

\* a file that raises empties the list
parse_step_reset(items, item) == IF item = RaiseV THEN << >> ELSE Append(items, item.v)

\* the item a file gives is appended; a file that raises is reported and passed over
parse_step(items, item) == IF item = RaiseV THEN items ELSE Append(items, item.v)

\* one iteration of `for p in files`
ParseFile ==
    /\ pc = "parse"
    /\ LET files == read_all_json(input.v)
           item == parse_json_file(files[idx], cfg.id_from, cfg.image_prefix)
       IN  /\ items_list' = parse_step(items_list, item)
           /\ out' = IF item = RaiseV THEN Append(out, "warn") ELSE out
           /\ idx' = idx + 1
           /\ pc' = IF idx = Len(files) THEN "unify" ELSE "parse"
    /\ UNCHANGED <<cfg, input, all_traits_order, base_cols, header, per_files,
                   agg_file, agg_items, args, result>>

\* the trait scan, the base columns and the header
BuildHeader ==
    /\ pc = "unify"
    /\ all_traits_order' = unify_traits(items_list)
    /\ base_cols' = select_base_cols(cfg)
    /\ header' = make_header(select_base_cols(cfg), filename_col_name(cfg),
                             unify_traits(items_list))
    /\ pc' = "per_file"
    /\ idx' = 1
    /\ UNCHANGED <<cfg, input, items_list, per_files, agg_file, agg_items, out,
                   args, result>>

HeaderRows == IF cfg.no_header THEN << >> ELSE <<header>>

\* per-item CSVs are written whatever the mode and the option
emits_always == TRUE

emits_per_file == folder_mode \/ cfg.emit_per_file

\* one per-item CSV: opened (created or truncated), header, row; a template
\* that raises leaves the file with what was written before and ends the run
WritePerFile ==
    /\ pc = "per_file" /\ emits_per_file /\ idx <= Len(items_list)
    /\ LET it == items_list[idx]
           row == make_row(it, cfg, base_cols, all_traits_order)
       IN  IF row = RaiseV
           THEN /\ per_files' = (it["_stem"] :> [header |-> HeaderRows, rows |-> << >>])
                                @@ per_files
                /\ Abort
                /\ idx' = idx
           ELSE /\ per_files' = (it["_stem"] :> [header |-> HeaderRows, rows |-> <<row.v>>])
                                @@ per_files
                /\ idx' = idx + 1
                /\ UNCHANGED <<pc, out>>
    /\ UNCHANGED <<cfg, input, items_list, all_traits_order, base_cols, header,
                   agg_file, agg_items, args, result>>

PerFileDone ==
    /\ pc = "per_file" /\ emits_per_file /\ idx > Len(items_list)
    /\ out' = Append(out, "wrote_per_file")
    /\ pc' = "aggregate"
    /\ UNCHANGED <<cfg, input, idx, items_list, all_traits_order, base_cols, header,
                   per_files, agg_file, agg_items, args, result>>

PerFileSkipped ==
    /\ pc = "per_file" /\ ~emits_per_file
    /\ out' = Append(out, "per_file_skipped")
    /\ pc' = "aggregate"
    /\ UNCHANGED <<cfg, input, idx, items_list, all_traits_order, base_cols, header,
                   per_files, agg_file, agg_items, args, result>>

NoAggregate ==
    /\ pc = "aggregate" /\ aggregate_path(cfg) = NoneV
    /\ out' = Append(out, "no_aggregate_requested")
    /\ pc' = "done"
    /\ UNCHANGED <<cfg, input, idx, items_list, all_traits_order, base_cols, header,
                   per_files, agg_file, agg_items, args, result>>

\* agg_items (in metadata mode the list items_list itself, sorted in place),
\* the file opened and the header row
OpenAggregate ==
    /\ pc = "aggregate" /\ aggregate_path(cfg) # NoneV
    /\ agg_items' = IF cfg.do_sort THEN sort_items(items_list) ELSE items_list
    /\ items_list' = IF folder_mode THEN items_list ELSE agg_items'
    /\ agg_file' = [path |-> aggregate_path(cfg), header |-> HeaderRows, rows |-> << >>]
    /\ idx' = 1
    /\ pc' = "agg_rows"
    /\ UNCHANGED <<cfg, input, all_traits_order, base_cols, header, per_files, out,
                   args, result>>

\* one row of the aggregated CSV; a template that raises ends the run
WriteAggRow ==
    /\ pc = "agg_rows" /\ idx <= Len(agg_items)
    /\ LET row == make_row(agg_items[idx], cfg, base_cols, all_traits_order)
       IN  IF row = RaiseV
           THEN Abort /\ UNCHANGED <<agg_file, idx>>
           ELSE /\ agg_file' = [agg_file EXCEPT !.rows = Append(@, row.v)]
                /\ idx' = idx + 1
                /\ UNCHANGED <<pc, out>>
    /\ UNCHANGED <<cfg, input, items_list, all_traits_order, base_cols, header,
                   per_files, agg_items, args, result>>

AggregateDone ==
    /\ pc = "agg_rows" /\ idx > Len(agg_items)
    /\ out' = Append(out, "aggregate_written")
    /\ pc' = "done"
    /\ UNCHANGED <<cfg, input, idx, items_list, all_traits_order, base_cols, header,
                   per_files, agg_file, agg_items, args, result>>

Next ==
    \/ LoadMetadata
    \/ ReadFolder
    \/ ParseFile
    \/ BuildHeader
    \/ WritePerFile
    \/ PerFileDone
    \/ PerFileSkipped
    \/ NoAggregate
    \/ OpenAggregate
    \/ WriteAggRow
    \/ AggregateDone

Spec == Init /\ [][Next]_vars

(* ------------------------------------------------------------------ *)
(* properties of a run                                                  *)
(* ------------------------------------------------------------------ *)
HasFilenameCol == Truthy(cfg.filename_col)
FilenameCells == IF HasFilenameCol THEN 1 ELSE 0

\* the item of the batch with a given stem
ItemOfStem(items, stem) == items[CHOOSE i \in 1..Len(items) : items[i]["_stem"] = stem]

\* a row of item it has the header's length, and an empty cell in the column
\* of every trait it lacks
RowFits(row, it) ==
    /\ Len(row) = Len(header)
    /\ \A j \in 1..Len(all_traits_order) :
           ~HasKey(it.traits, all_traits_order[j])
           => row[Len(base_cols) + FilenameCells + j] = EmptyStr

\* C1: every data row of every CSV of the batch (per-item and aggregated) has as
\* many cells as the one header, which is base columns ++ optional filename
\* column ++ trait columns and is the header row of every file that has one; a
\* trait the item lacks gives an empty cell in that trait's column.
C1_RowsFitHeader ==
    /\ pc \in {"per_file", "aggregate", "agg_rows", "done"} =>
           Len(header) = Len(base_cols) + FilenameCells + Len(all_traits_order)
    /\ \A stem \in DOMAIN per_files :
           /\ \A j \in 1..Len(per_files[stem].header) : per_files[stem].header[j] = header
           /\ \A j \in 1..Len(per_files[stem].rows) :
                  RowFits(per_files[stem].rows[j], ItemOfStem(items_list, stem))
    /\ agg_file # NoFile =>
           /\ \A j \in 1..Len(agg_file.header) : agg_file.header[j] = header
           /\ \A j \in 1..Len(agg_file.rows) : RowFits(agg_file.rows[j], agg_items[j])

\* a finished run with a filename column and a field list, whose items lack
\* traits of the header, in per-item files and in the aggregated file
C1_Witness ==
    /\ pc = "done" /\ HasFilenameCol /\ Truthy(cfg.fields)
    /\ Len(all_traits_order) = 2
    /\ agg_file # NoFile /\ Len(agg_file.rows) = 3
    /\ Cardinality(DOMAIN per_files) = 3
    /\ \E i \in 1..3 : agg_items[i].traits = << >>
    /\ \E i \in 1..3 : Len(agg_items[i].traits) = 1

\* where name is first seen in the scan of items: <<item, position in the item>>
FirstSeen(items, name) ==
    LET i == CHOOSE i \in 1..Len(items) :
                 /\ HasKey(items[i].traits, name)
                 /\ \A h \in 1..(i - 1) : ~HasKey(items[h].traits, name)
        j == CHOOSE j \in 1..Len(items[i].traits) : items[i].traits[j][1] = name
    IN  <<i, j>>

ScanBefore(a, b) == a[1] < b[1] \/ (a[1] = b[1] /\ a[2] < b[2])

\* C2: the trait columns are the trait names of all items of the batch, each
\* once, in the order in which the scan of the items (in ingestion order, each
\* item's names in its own insertion order) first meets them; they are the
\* last columns of the header.
C2_TraitColumnsFirstSeen ==
    /\ pc \in {"per_file", "aggregate"} =>
           /\ \A a, b \in 1..Len(all_traits_order) :
                  a # b => all_traits_order[a] # all_traits_order[b]
           /\ {all_traits_order[a] : a \in 1..Len(all_traits_order)}
                  = UNION {{items_list[i].traits[j][1] : j \in 1..Len(items_list[i].traits)} :
                              i \in 1..Len(items_list)}
           /\ \A a, b \in 1..Len(all_traits_order) :
                  a < b => ScanBefore(FirstSeen(items_list, all_traits_order[a]),
                                      FirstSeen(items_list, all_traits_order[b]))
    /\ pc \in {"per_file", "aggregate", "agg_rows", "done"} =>
           \A a \in 1..Len(all_traits_order) :
               header[Len(base_cols) + FilenameCells + a] = StrV(all_traits_order[a])

\* the first item with traits has B before A, a later one has A only: the
\* columns are B, A
C2_Witness ==
    /\ pc = "aggregate"
    /\ Len(items_list) = 3
    /\ items_list[1].traits = << >>
    /\ TraitKeys(items_list[2].traits) = << <<"B">>, <<"A">> >>
    /\ TraitKeys(items_list[3].traits) = << <<"A">> >>
    /\ all_traits_order = << <<"B">>, <<"A">> >>

\* a comes before b in the claimed order: a has a token id, and b has none or a
\* greater one
ClaimedLess(a, b) ==
    a.token_id # NoneV /\ (b.token_id = NoneV \/ a.token_id.v < b.token_id.v)

PosIn(items, it) == CHOOSE i \in 1..Len(items) : items[i] = it

IsPermutation(a, b) ==
    /\ Len(a) = Len(b)
    /\ \A i \in 1..Len(b) : Cardinality({j \in 1..Len(a) : a[j] = b[i]}) = 1

\* the cell of base column c in a row, when c is selected
CellOf(row, c) == row[CHOOSE j \in 1..Len(base_cols) : base_cols[j] = c]

\* C3: the sequence the aggregated CSV is written from is a permutation of the
\* batch's items, unchanged in every field; with sorting on it is ascending by
\* token_id, absent ids last, equal ones in ingestion order; with sorting off it
\* is the ingestion order. The rows of the file follow that sequence.
C3_SortOrder ==
    /\ [][(pc = "aggregate" /\ pc' = "agg_rows") =>
             /\ IsPermutation(agg_items', items_list)
             /\ ~cfg.do_sort => agg_items' = items_list
             /\ cfg.do_sort =>
                    \A i, j \in 1..Len(agg_items') :
                        i < j =>
                            /\ ~ClaimedLess(agg_items'[j], agg_items'[i])
                            /\ ~ClaimedLess(agg_items'[i], agg_items'[j])
                               => PosIn(items_list, agg_items'[i])
                                  < PosIn(items_list, agg_items'[j])]_vars
    /\ [](agg_file # NoFile =>
             /\ Len(agg_file.rows) <= Len(agg_items)
             /\ pc = "done" => Len(agg_file.rows) = Len(agg_items)
             /\ InSeq("token_id", base_cols) =>
                    \A i \in 1..Len(agg_file.rows) :
                        CellOf(agg_file.rows[i], "token_id") = agg_items[i].token_id)

\* a list of three items with token ids 3, none, 3, sorted: the two with id 3
\* in ingestion order, then the one without
C3_Witness ==
    /\ pc = "done" /\ cfg.do_sort /\ input.k = "meta" /\ input.v.k = "list"
    /\ Len(agg_file.rows) = 3
    /\ [i \in 1..3 |-> agg_items[i].token_id] = <<IntV(3), IntV(3), NoneV>>
    /\ [i \in 1..3 |-> agg_items[i]["_stem"]] = << <<"1">>, <<"3">>, <<"2">> >>

\* folder mode: the files that parse, and their stems in file-name order
GoodFiles == {p \in input.v : p.content.k = "dict"}

StemsSorted(sq) == \A i, j \in 1..Len(sq) : i < j => LexLess(sq[i], sq[j])

Count(sq, x) == Cardinality({i \in 1..Len(sq) : sq[i] = x})

\* C7: in folder mode a file that fails to parse is reported and excluded, and
\* the run goes on: the batch is the files that parsed, in file-name order, each
\* item what its file alone gives; the failing file gets no per-item CSV and no
\* row in the aggregated CSV; the run does not end on it.
C7_ParseFailureSkipped ==
    (folder_mode /\ pc \notin {"start", "parse"} /\ input.v # {}) =>
        /\ {items_list[i]["_stem"] : i \in 1..Len(items_list)}
               = {p.stem : p \in GoodFiles}
        /\ Len(items_list) = Cardinality(GoodFiles)
        /\ StemsSorted([i \in 1..Len(items_list) |-> items_list[i]["_stem"]])
        /\ \A p \in GoodFiles :
               ItemOfStem(items_list, p.stem)
                   = parse_json_file(p, cfg.id_from, cfg.image_prefix).v
        /\ Count(out, "warn") = Cardinality(input.v \ GoodFiles)
        /\ DOMAIN per_files \subseteq {p.stem : p \in GoodFiles}
        /\ pc \in {"aggregate", "agg_rows", "done"} =>
               DOMAIN per_files = {p.stem : p \in GoodFiles}
        /\ agg_file # NoFile =>
               /\ IsPermutation(agg_items, items_list)
               /\ pc = "done" => Len(agg_file.rows) = Cardinality(GoodFiles)
        /\ pc = "aborted" => (HasFilenameCol /\ cfg.filename_tmpl = TemplateBad)

\* a finished folder run whose second file of three failed to parse
C7_Witness ==
    /\ pc = "done" /\ folder_mode
    /\ Cardinality(input.v) = 3
    /\ \E p \in input.v : p.stem = FolderStems[2] /\ p.content = BadJson
    /\ Len(items_list) = 2
    /\ DOMAIN per_files = {FolderStems[1], FolderStems[3]}
    /\ agg_file # NoFile /\ Len(agg_file.rows) = 2
    /\ Count(out, "warn") = 1

\* C8: a finished run in metadata mode has written the aggregated CSV, at the
\* explicit path when given and at metadata.csv otherwise, with the header row
\* unless suppressed and one data row per item, and per-item CSVs only when
\* asked to; a finished run in folder mode has written one per-item CSV, of one
\* row, per item, and the aggregated CSV iff an explicit path is given.
C8_OutputDispatch ==
    pc = "done" =>
        /\ ~folder_mode =>
               /\ agg_file # NoFile
               /\ agg_file.path = IF Truthy(cfg.aggregate) THEN cfg.aggregate.v
                                  ELSE MetadataCsv
               /\ ~cfg.emit_per_file => DOMAIN per_files = {}
               /\ cfg.emit_per_file =>
                      DOMAIN per_files = {items_list[i]["_stem"] : i \in 1..Len(items_list)}
        /\ folder_mode =>
               /\ DOMAIN per_files = {items_list[i]["_stem"] : i \in 1..Len(items_list)}
               /\ agg_file # NoFile <=> Truthy(cfg.aggregate)
               /\ agg_file # NoFile => agg_file.path = cfg.aggregate.v
        /\ \A stem \in DOMAIN per_files : Len(per_files[stem].rows) = 1
        /\ agg_file # NoFile =>
               /\ agg_file.header = IF cfg.no_header THEN << >> ELSE <<header>>
               /\ Len(agg_file.rows) = Len(items_list)
               /\ IsPermutation(agg_items, items_list)

\* metadata mode, a list of two items, no aggregate path: metadata.csv with the
\* header row and two data rows
C8_Witness ==
    /\ pc = "done" /\ ~folder_mode /\ ~Truthy(cfg.aggregate) /\ ~cfg.no_header
    /\ input.k = "meta" /\ input.v.k = "list" /\ Len(input.v.v) = 2
    /\ agg_file # NoFile /\ agg_file.path = MetadataCsv
    /\ Len(agg_file.header) = 1 /\ Len(agg_file.rows) = 2

NoOutputRequested == ~folder_mode /\ ~cfg.emit_per_file /\ ~Truthy(cfg.aggregate)

\* C9 as stated: metadata mode without per-item emission and without an
\* aggregate path writes no CSV file at all, and prints a diagnostic.
C9_NothingWritten ==
    (pc = "done" /\ NoOutputRequested) =>
        /\ agg_file = NoFile
        /\ DOMAIN per_files = {}
        /\ Len(out) > 0

\* C9 amended: metadata mode without per-item emission and without an aggregate
\* path is no error: the run writes no per-item CSV and says so, and writes the
\* aggregated CSV, all items, at metadata.csv; it ends early only on a fatal
\* input or template error.
C9_OnlyMetadataCsv ==
    /\ (pc \in {"aggregate", "agg_rows", "done"} /\ NoOutputRequested) =>
           /\ DOMAIN per_files = {}
           /\ out[1] = "per_file_skipped"
    /\ (pc = "done" /\ NoOutputRequested) =>
           /\ agg_file # NoFile
           /\ agg_file.path = MetadataCsv
           /\ Len(agg_file.rows) = Len(items_list)
           /\ out = <<"per_file_skipped", "aggregate_written">>
    /\ (pc = "aborted" /\ NoOutputRequested) =>
           \/ input.k = "missing"
           \/ input.v.k \notin {"list", "odict"}
           \/ HasFilenameCol /\ cfg.filename_tmpl = TemplateBad

\* such a run, finished, with items
C9_Witness ==
    /\ pc = "done" /\ NoOutputRequested
    /\ Len(items_list) = 2
    /\ agg_file # NoFile /\ Len(agg_file.rows) = 2
    /\ DOMAIN per_files = {}

\* C6: a run that ends on a fatal error has written no aggregated CSV, not even
\* a created or truncated file or a header row.
C6_NoPartialAggregate == pc = "aborted" => agg_file = NoFile

====
